---- MODULE Spec2Model ----
(***************************************************************************)
(* Model of src/Server.js (the active second copy of the server, lines     *)
(* 304-767): the per-caller rate limiter, the validators, the e-mail       *)
(* builders, and the route handlers POST /api/send-email and               *)
(* POST /api/send-absent-emails, with the SMTP transport as environment.   *)
(*                                                                         *)
(* JavaScript strings are sequences of one-character strings.  A           *)
(* JavaScript value is a record [t, s]: t is the typeof tag and s the      *)
(* characters (of a string, or the digits of a number).                    *)
(***************************************************************************)
EXTENDS Integers, Sequences, FiniteSets, TLC

(* ------------------------------ bounds --------------------------------- *)
\* longest records[] array a batch request carries
MaxBatch == 2
\* request slots: requests that can be in flight at the same time
MaxReqs == 2
\* the clock Date.now() runs from 0 to MaxNow ticks
MaxNow == 4
\* RATE_LIMIT_WINDOW (60000 ms at Server.js:362), scaled to clock ticks
RATE_LIMIT_WINDOW == 2
\* MAX_REQUESTS_PER_WINDOW (20 at Server.js:363), scaled
MAX_REQUESTS_PER_WINDOW == 2

(* --------------------------- JavaScript values ------------------------- *)
JUndefined == [t |-> "undefined", s |-> <<>>]
JStr(s) == [t |-> "string", s |-> s]
JNum(digits) == [t |-> "number", s |-> digits]

\* ToBoolean: undefined, "" and 0 are falsy
Truthy(v) ==
  CASE v.t = "undefined" -> FALSE
    [] v.t = "string" -> v.s # <<>>
    [] v.t = "number" -> v.s # <<"0">>
    [] OTHER -> TRUE

Whitespace == {" "}
UpperLetters == {"A", "B", "C", "D", "E", "F", "G", "H", "I", "J", "K", "L", "M",
                 "N", "O", "P", "Q", "R", "S", "T", "U", "V", "W", "X", "Y", "Z"}
Digits == {"0", "1", "2", "3", "4", "5", "6", "7", "8", "9"}

\* String.prototype.toUpperCase / toLowerCase on the letters the inputs use
UpperChar(c) ==
  CASE c = "a" -> "A" [] c = "b" -> "B" [] c = "c" -> "C" [] c = "l" -> "L"
    [] c = "x" -> "X" [] OTHER -> c
LowerChar(c) ==
  CASE c = "A" -> "a" [] c = "B" -> "b" [] c = "C" -> "c" [] c = "L" -> "l"
    [] c = "X" -> "x" [] OTHER -> c
toUpperCase(s) == [i \in DOMAIN s |-> UpperChar(s[i])]
toLowerCase(s) == [i \in DOMAIN s |-> LowerChar(s[i])]

RECURSIVE trimStart(_)
trimStart(s) ==
  IF s # <<>> /\ Head(s) \in Whitespace THEN trimStart(Tail(s)) ELSE s
RECURSIVE trimEnd(_)
trimEnd(s) ==
  IF s # <<>> /\ s[Len(s)] \in Whitespace
  THEN trimEnd(SubSeq(s, 1, Len(s) - 1)) ELSE s
\* String.prototype.trim
trim(s) == trimEnd(trimStart(s))

(* ------------------------------ utilities ------------------------------ *)
\* /^[^\s@]+@[^\s@]+\.[^\s@]+$/.test(s)
EmailRegexTest(s) ==
  \E a \in 2..Len(s) :
    /\ s[a] = "@"
    /\ \A i \in (1..Len(s)) \ {a} : s[i] \notin Whitespace \cup {"@"}
    /\ \E p \in (a + 2)..(Len(s) - 1) : s[p] = "."

isEmail(v) ==
  IF ~Truthy(v) \/ v.t # "string" THEN FALSE ELSE EmailRegexTest(trim(v.s))

\* /^[A-Z0-9]+$/.test(s)
AlnumRegexTest(s) ==
  Len(s) >= 1 /\ \A i \in 1..Len(s) : s[i] \in UpperLetters \cup Digits

isValidStudentId(v) ==
  IF ~Truthy(v) \/ v.t # "string" THEN FALSE
  ELSE LET trimmed == toUpperCase(trim(v.s))
       IN Len(trimmed) >= 3 /\ AlnumRegexTest(trimmed)

MarkupChars == {"<", ">", "\"", "'", "&"}
sanitizeInput(v) ==
  IF v.t # "string" THEN <<>>
  ELSE SelectSeq(trim(v.s), LAMBDA c : c \notin MarkupChars)

(* --------------------------------- dates ------------------------------- *)
\* A Date object: valid is FALSE for an Invalid Date (time value NaN); day
\* holds the calendar day the time value falls on in Asia/Kolkata.
InvalidDate == [valid |-> FALSE, day |-> <<>>]

\* "YYYY-MM-DD", the date-only ISO form the payload example uses
IsISODate(s) ==
  /\ Len(s) = 10
  /\ s[5] = "-" /\ s[8] = "-"
  /\ \A i \in {1, 2, 3, 4, 6, 7, 9, 10} : s[i] \in Digits

DigitOf(n) ==
  CASE n = 0 -> "0" [] n = 1 -> "1" [] n = 2 -> "2" [] n = 3 -> "3" [] n = 4 -> "4"
    [] n = 5 -> "5" [] n = 6 -> "6" [] n = 7 -> "7" [] n = 8 -> "8" [] OTHER -> "9"

\* new Date(): the current time, read from the clock
CurrentDate(clock) ==
  [valid |-> TRUE, day |-> <<"2", "0", "2", "6", "-", "0", "1", "-", "1", DigitOf(clock)>>]

\* new Date(v) for a string or a number v.  A string that is not a date
\* (the inputs use "xx") gives an Invalid Date; a number is a time value in
\* milliseconds (the inputs use one digit: 1 January 1970).
NewDate(v) ==
  CASE v.t = "string" -> IF IsISODate(v.s) THEN [valid |-> TRUE, day |-> v.s]
                         ELSE InvalidDate
    [] v.t = "number" -> [valid |-> TRUE,
                          day |-> <<"1", "9", "7", "0", "-", "0", "1", "-", "0", "1">>]
    [] OTHER -> InvalidDate

\* Intl.DateTimeFormat("en-IN", {dateStyle: "full", ...}).format(d): day,
\* month, year in that order.  format throws a RangeError on an Invalid
\* Date; callers test d.valid first.
FormatDay(d) ==
  SubSeq(d.day, 9, 10) \o <<" ">> \o SubSeq(d.day, 6, 7) \o <<" ">> \o SubSeq(d.day, 1, 4)

\* Date.prototype.toISOString, at the granularity of days
toISOString(d) == JStr(d.day)

(* ----------------------------- records --------------------------------- *)
\* One element of records[] (or the body of /api/send-email).  nul is TRUE
\* for a JSON null; a field the JSON object lacks is JUndefined.
Rec(id, name, email, dateISO, timestamp) ==
  [nul |-> FALSE, studentId |-> id, studentName |-> name, parentEmail |-> email,
   dateISO |-> dateISO, timestamp |-> timestamp]
NullRec ==
  [nul |-> TRUE, studentId |-> JUndefined, studentName |-> JUndefined,
   parentEmail |-> JUndefined, dateISO |-> JUndefined, timestamp |-> JUndefined]

\* const { studentId, studentName, parentEmail, dateISO } = rec || {}
Destructure(rec) ==
  IF rec.nul THEN [NullRec EXCEPT !.nul = FALSE] ELSE rec

IdGood == JStr(<<"A", "B", "1">>)
IdLowerPadded == JStr(<<" ", "a", "b", "1">>)
IdShort == JStr(<<"a">>)
IdDash == JStr(<<"a", "-", "1">>)
NameGood == JStr(<<"A", "l">>)
NameBlank == JStr(<<" ", " ">>)
NameMarkup == JStr(<<"<", "b", ">", "&">>)
EmailGood == JStr(<<"a", "@", "b", ".", "c">>)
EmailPaddedUpper == JStr(<<" ", "A", "@", "b", ".", "c">>)
EmailBad == JStr(<<"x">>)
EmailNumber == JNum(<<"4">>)
DateGood == JStr(<<"2", "0", "2", "5", "-", "0", "8", "-", "2", "5">>)
DateBad == JStr(<<"x", "x">>)

\* the records a batch is drawn from
BatchRecords ==
  { Rec(IdGood, NameGood, EmailGood, JUndefined, JUndefined),
    Rec(IdGood, NameGood, EmailGood, DateGood, JUndefined),
    Rec(IdGood, NameGood, EmailGood, DateBad, JUndefined),
    Rec(IdLowerPadded, NameMarkup, EmailPaddedUpper, JUndefined, JUndefined),
    Rec(IdShort, NameGood, EmailGood, JUndefined, JUndefined),
    Rec(IdDash, NameBlank, EmailGood, JUndefined, JUndefined),
    Rec(IdGood, NameGood, EmailBad, JUndefined, JUndefined),
    Rec(IdGood, NameGood, EmailNumber, JUndefined, JUndefined),
    Rec(IdGood, JUndefined, EmailGood, JUndefined, JUndefined),
    Rec(JUndefined, NameGood, EmailGood, DateBad, JUndefined),
    NullRec }

RECURSIVE SeqsUpTo(_, _)
SeqsUpTo(S, n) ==
  IF n = 0 THEN {<<>>}
  ELSE LET shorter == SeqsUpTo(S, n - 1)
       IN shorter \cup {Append(q, x) : q \in shorter, x \in S}

\* req.body of POST /api/send-absent-emails: records is an array, or is
\* missing / not an array (isArray FALSE)
BatchBody(isArray, records) ==
  [isArray |-> isArray, records |-> records, rec |-> NullRec, reportData |-> JUndefined]
BatchBodies ==
  {BatchBody(TRUE, q) : q \in SeqsUpTo(BatchRecords, MaxBatch)}
    \cup {BatchBody(FALSE, <<>>)}

\* req.body of POST /api/send-email
SingleBody(rec) ==
  [isArray |-> FALSE, records |-> <<>>, rec |-> rec, reportData |-> JUndefined]
SingleBodies ==
  {SingleBody(rec) : rec \in
    { Rec(IdGood, NameGood, EmailGood, JUndefined, JUndefined),
      Rec(IdLowerPadded, NameMarkup, EmailPaddedUpper, JUndefined, DateGood),
      Rec(IdGood, NameBlank, EmailGood, JUndefined, DateBad),
      Rec(IdShort, NameGood, EmailGood, JUndefined, JUndefined),
      Rec(IdDash, NameGood, EmailGood, JUndefined, JUndefined),
      Rec(IdGood, NameGood, EmailBad, JUndefined, JUndefined),
      Rec(IdGood, JUndefined, EmailGood, JUndefined, JUndefined),
      Rec(IdShort, JUndefined, EmailBad, JUndefined, JUndefined),
      Rec(IdShort, NameGood, EmailBad, JUndefined, JUndefined),
      NullRec }}
NoBody == BatchBody(FALSE, <<>>)

\* req.body of POST /api/send-pdf-email
PdfBody(studentName, parentEmail, reportData) ==
  [isArray |-> FALSE, records |-> <<>>,
   rec |-> Rec(JUndefined, studentName, parentEmail, JUndefined, JUndefined),
   reportData |-> reportData]
ReportGood == JStr(<<"P">>)
PdfBodies ==
  { PdfBody(NameGood, EmailGood, ReportGood),
    PdfBody(NameMarkup, EmailPaddedUpper, ReportGood),
    PdfBody(NameGood, EmailGood, JUndefined),
    PdfBody(JUndefined, EmailGood, ReportGood),
    PdfBody(NameGood, EmailBad, ReportGood) }

(* ------------------------- e-mail content builders --------------------- *)
\* `${v}` in a template literal
Interpolate(v) == v.s

\* what a builder returns; threw is TRUE when the builder ends in an exception
\* instead of returning
Mail(subject, status, name, id, when) ==
  [threw |-> FALSE, subject |-> subject,
   text |-> [status |-> status, studentName |-> name, studentId |-> id, when |-> when],
   html |-> [status |-> status, studentName |-> name, studentId |-> id, when |-> when]]
Thrown ==
  [threw |-> TRUE, subject |-> "",
   text |-> [status |-> "", studentName |-> <<>>, studentId |-> <<>>, when |-> <<>>],
   html |-> [status |-> "", studentName |-> <<>>, studentId |-> <<>>, when |-> <<>>]]

\* new Date().toLocaleString('en-IN', ...): day/month/year
FormatLocale(d) ==
  SubSeq(d.day, 9, 10) \o <<"/">> \o SubSeq(d.day, 6, 7) \o <<"/">> \o SubSeq(d.day, 1, 4)

\* formatIST: an unparsable value is caught and replaced by the current time
formatIST(isoOrDate, clock) ==
  LET d == NewDate(isoOrDate)
  IN IF d.valid THEN FormatDay(d) ELSE FormatLocale(CurrentDate(clock))

buildAttendanceEmail(studentId, studentName, whenISO, clock) ==
  Mail("Attendance: Present", "PRESENT", studentName, studentId,
       formatIST(whenISO, clock))

AbsentDate_AlwaysNow(dateISO, clock) == CurrentDate(clock)
\* new Date(dateISO || new Date()), then format(), which throws a RangeError
\* on an Invalid Date
AbsentDate(dateISO, clock) ==
  IF Truthy(dateISO) THEN NewDate(dateISO) ELSE CurrentDate(clock)

buildAbsentEmail(studentId, studentName, dateISO, clock) ==
  LET d == AbsentDate(dateISO, clock)
  IN IF ~d.valid THEN Thrown
     ELSE Mail("Attendance: Absent", "ABSENT", Interpolate(studentName),
               Interpolate(studentId), FormatDay(d))

\* the argument of transporter.sendMail
Envelope(to, mail) ==
  [to |-> to, subject |-> mail.subject, text |-> mail.text, html |-> mail.html]

\* a direct call of a builder: which one, its arguments, the time of the
\* call and what it returned
RenderCalls == {1, 2}
Render(fn, id, name, date, clock, out) ==
  [fn |-> fn, studentId |-> id, studentName |-> name, date |-> date, at |-> clock,
   out |-> out]
NoRender == Render("none", <<>>, <<>>, JUndefined, 0, Thrown)

(* ------------------------- results and responses ----------------------- *)
Absent == "(absent)"
\* one element of results[]; dryRun FALSE and message Absent stand for a key
\* the object does not have
Result(studentId, ok, dryRun, message) ==
  [studentId |-> studentId, ok |-> ok, dryRun |-> dryRun, message |-> message]

RejectedResult(studentId) == Result(studentId, FALSE, FALSE, "Invalid or missing fields")
DryRunResult_NoFlag(studentId) == Result(studentId, TRUE, FALSE, Absent)
DryRunResult(studentId) == Result(studentId, TRUE, TRUE, Absent)
SentResult(studentId) == Result(studentId, TRUE, FALSE, Absent)
\* e?.message || "send failed"
FailedResult(studentId, e) ==
  Result(studentId, FALSE, FALSE, IF e = "" THEN "send failed" ELSE e)

CountOk_All(results) == Len(results)
\* results.filter(r => r.ok).length
RECURSIVE CountOk(_)
CountOk(results) ==
  IF results = <<>> THEN 0
  ELSE (IF Head(results).ok THEN 1 ELSE 0) + CountOk(Tail(results))

\* an HTTP response; status 0: none sent yet.  sent, total and results are
\* those of res.json({ ok: true, sent, total, results }).
Response(status, ok, message, sent, total, results) ==
  [status |-> status, ok |-> ok, message |-> message, sent |-> sent,
   total |-> total, results |-> results, emailSent |-> FALSE]
NoResponse == Response(0, FALSE, Absent, 0, 0, <<>>)
ErrorResponse(status, message) == Response(status, FALSE, message, 0, 0, <<>>)
BatchResponse(results) ==
  Response(200, TRUE, Absent, CountOk(results), Len(results), results)
SingleResponse == Response(200, TRUE, Absent, 0, 0, <<>>)
\* res.json({ ok: true, emailSent })
PdfResponse(emailSent) ==
  [Response(200, TRUE, Absent, 0, 0, <<>>) EXCEPT !.emailSent = emailSent]

\* the messages a rejected transporter.sendMail promise carries ("": an
\* error without a message)
TransportErrors == {"ETIMEDOUT", ""}

(* ----------------------------- report files ---------------------------- *)
\* \w and "-" in /[^\w\-]+/g, on the characters the inputs use
WordChars ==
  UpperLetters \cup Digits \cup {"a", "b", "c", "l", "x", "_", "-"}
RECURSIVE DropNonWord(_)
DropNonWord(q) ==
  IF q # <<>> /\ Head(q) \notin WordChars THEN DropNonWord(Tail(q)) ELSE q
\* String(studentName || "student").replace(/[^\w\-]+/g, "_")
RECURSIVE Safe(_)
Safe(q) ==
  IF q = <<>> THEN <<>>
  ELSE IF Head(q) \in WordChars THEN <<Head(q)>> \o Safe(Tail(q))
  ELSE <<"_">> \o Safe(DropNonWord(q))

\* path.join(REPORT_DIR, `${safe}_monthly_${Date.now()}.pdf`)
PdfPath(safe, clock) == [safe |-> safe, at |-> clock]
NoPath == PdfPath(<<>>, 0 - 1)

\* a file in REPORT_DIR; complete: the write stream finished
File(path, complete) == [path |-> path, complete |-> complete]
\* fs.unlinkSync(path), its error swallowed when the file is not there
unlinkSync(files, path) == {f \in files : f.path # path}
\* fs.createWriteStream(path) and what reached the disk through it
WriteFile(files, path, complete) == unlinkSync(files, path) \cup {File(path, complete)}

\* the argument of transporter.sendMail on the PDF route
PdfEnvelope(to, path) ==
  [to |-> to, subject |-> "Monthly Attendance Report",
   text |-> "Attached is your child's monthly attendance report.",
   html |-> "<p>Attached is your child's monthly attendance report.</p>",
   attachments |-> <<path>>]

(* -------------------------------- state -------------------------------- *)
VARIABLES
  DRY_RUN,       \* the DRY_RUN flag read from the environment at start-up
  transporter,   \* "smtp": a nodemailer transport; "null": none was created
  now,           \* Date.now()
  rateLimitMap,  \* caller -> array of request timestamps (a partial function)
  granted,       \* history: per caller, the times of the requests let through
                 \* that are less than RATE_LIMIT_WINDOW old
  pc,            \* per request slot: where its handling is suspended
  route,         \* per slot: the route that handles the request
  clientId,      \* per slot: req.ip
  body,          \* per slot: req.body
  idx,           \* per slot: index of the record the batch loop is at
  results,       \* per slot: the results array of the batch handler
  res,           \* per slot: the HTTP response sent
  sendCalls,     \* per slot: the calls of transporter.sendMail it made
  renders,       \* the two latest direct calls of the content builders
  pdfPath,       \* per slot: the pdfPath of the PDF route's handler
  reportFiles    \* the files in REPORT_DIR

pdfVars == <<pdfPath, reportFiles>>
vars == <<DRY_RUN, transporter, now, rateLimitMap, granted, pc, route, clientId,
          body, idx, results, res, sendCalls, renders, pdfVars>>

Reqs == 1..MaxReqs
Callers == {"ip1", "ip2"}

\* process.env.X || "<default>" is never empty
SMTP_USER == "saamarthyaacademy24@gmail.com"
SMTP_PASS == "app-password"

\* let transporter = null; if (!DRY_RUN) { if (!SMTP_USER || !SMTP_PASS) ... else createTransport }
CreateTransporter(dryRun) ==
  IF ~dryRun /\ SMTP_USER # "" /\ SMTP_PASS # "" THEN "smtp" ELSE "null"

Init ==
  /\ DRY_RUN \in BOOLEAN
  /\ transporter = CreateTransporter(DRY_RUN)
  /\ now = 0
  /\ rateLimitMap = << >>
  /\ granted = [c \in Callers |-> <<>>]
  /\ pc = [r \in Reqs |-> "idle"]
  /\ route = [r \in Reqs |-> "none"]
  /\ clientId = [r \in Reqs |-> "none"]
  /\ body = [r \in Reqs |-> NoBody]
  /\ idx = [r \in Reqs |-> 0]
  /\ results = [r \in Reqs |-> <<>>]
  /\ res = [r \in Reqs |-> NoResponse]
  /\ sendCalls = [r \in Reqs |-> <<>>]
  /\ renders = [k \in RenderCalls |-> NoRender]
  /\ pdfPath = [r \in Reqs |-> NoPath]
  /\ reportFiles = {}

(* ----------------------------- rate limiter ---------------------------- *)
\* requests.filter(time => now - time < RATE_LIMIT_WINDOW)
ValidRequests(requests, clock) ==
  SelectSeq(requests, LAMBDA time : clock - time < RATE_LIMIT_WINDOW)

OverLimit_Gt(validRequests) == Len(validRequests) > MAX_REQUESTS_PER_WINDOW
\* validRequests.length >= MAX_REQUESTS_PER_WINDOW
OverLimit(validRequests) == Len(validRequests) >= MAX_REQUESTS_PER_WINDOW

StoredRequests_Shared(c) ==
  IF DOMAIN rateLimitMap = {} THEN <<>>
  ELSE rateLimitMap[CHOOSE k \in DOMAIN rateLimitMap : TRUE]
\* rateLimitMap.get(clientId), after the entry was created when missing
StoredRequests(c) ==
  IF c \in DOMAIN rateLimitMap THEN rateLimitMap[c] ELSE <<>>

DeniedEntry_Recorded(requests, validRequests) == Append(validRequests, now)
\* what a denied request leaves in the map: the entry as it was
DeniedEntry(requests, validRequests) == requests

AllowedEntry_Unpruned(requests, validRequests) == Append(requests, now)
\* validRequests.push(now); rateLimitMap.set(clientId, validRequests)
AllowedEntry(requests, validRequests) == Append(validRequests, now)

AfterDenied_CallsNext == "next"
\* return res.status(429).json(...): the middleware returns without next()
AfterDenied == "done"

\* the middleware app.use('/api', rateLimit), for a request of caller c
rateLimit(r, c) ==
  /\ pc[r] = "idle"
  /\ LET requests == StoredRequests(c)
         validRequests == ValidRequests(requests, now)
     IN IF OverLimit(validRequests)
        THEN /\ rateLimitMap' = (c :> DeniedEntry(requests, validRequests)) @@ rateLimitMap
             /\ res' = [res EXCEPT ![r] =
                          ErrorResponse(429, "Too many requests. Please try again later.")]
             /\ pc' = [pc EXCEPT ![r] = AfterDenied]
             /\ UNCHANGED granted
        ELSE /\ rateLimitMap' = (c :> AllowedEntry(requests, validRequests)) @@ rateLimitMap
             /\ granted' = [granted EXCEPT ![c] = Append(@, now)]
             /\ pc' = [pc EXCEPT ![r] = "next"]
             /\ UNCHANGED res
  /\ clientId' = [clientId EXCEPT ![r] = c]
  /\ UNCHANGED <<pdfVars, renders, DRY_RUN, transporter, now, route, body, idx, results, sendCalls>>

\* time passes; the history forgets what has left the trailing window
Tick ==
  /\ now < MaxNow
  /\ now' = now + 1
  /\ granted' = [c \in Callers |->
                   SelectSeq(granted[c], LAMBDA t : t + RATE_LIMIT_WINDOW > now + 1)]
  /\ UNCHANGED <<pdfVars, renders, DRY_RUN, transporter, rateLimitMap, pc, route, clientId,
                 body, idx, results, res, sendCalls>>

\* the callers whose entry holds a timestamp younger than the window
Recent(m, clock) ==
  {c \in DOMAIN m : \E i \in 1..Len(m[c]) : clock - m[c][i] < RATE_LIMIT_WINDOW}

SweptMap_KeepAll(m, clock) == [c \in DOMAIN m |-> ValidRequests(m[c], clock)]
\* the map after a sweep: expired timestamps dropped, and with them the
\* callers that have no recent activity
SweptMap(m, clock) == [c \in Recent(m, clock) |-> ValidRequests(m[c], clock)]

\* the periodic cleanup (setInterval) of the rate limit data
Sweep ==
  /\ rateLimitMap' = SweptMap(rateLimitMap, now)
  /\ UNCHANGED <<pdfVars, renders, DRY_RUN, transporter, now, granted, pc, route, clientId,
                 body, idx, results, res, sendCalls>>

(* ------------------- POST /api/send-absent-emails ---------------------- *)
PayloadInvalid_NoLength(b) == ~b.isArray
\* !Array.isArray(records) || records.length === 0
PayloadInvalid(b) == ~b.isArray \/ Len(b.records) = 0

BatchRejects_NoEmail(f) ==
  ~Truthy(f.studentId) \/ ~Truthy(f.studentName) \/ ~Truthy(f.parentEmail)
\* !studentId || !studentName || !parentEmail || !isEmail(parentEmail)
BatchRejects(f) ==
  \/ ~Truthy(f.studentId)
  \/ ~Truthy(f.studentName)
  \/ ~Truthy(f.parentEmail)
  \/ ~isEmail(f.parentEmail)

\* DRY_RUN || !transporter
UseDryRun == DRY_RUN \/ transporter = "null"

PushRejected_Skip(rs, studentId) == rs
\* results.push({ studentId, ok: false, message: ... }); continue
PushRejected(rs, studentId) == Append(rs, RejectedResult(studentId))

\* one call of transporter.sendMail: the record index it is for (0 on the
\* single-record route), the envelope, how the promise settled, and the
\* message of the error it was rejected with
SendCall(i, envelope) ==
  [idx |-> i, envelope |-> envelope, outcome |-> "pending", error |-> ""]

\* where the handler is after running from a point until it next suspends
\* (await) or responds; call holds the sendMail call it made on the way
Step(p, i, rs, response, call) ==
  [pc |-> p, idx |-> i, results |-> rs, res |-> response, call |-> call]

\* the catch block of the handler: res.status(500).json(...)
BatchCaught(i, rs) ==
  Step("done", i, rs, ErrorResponse(500, "Internal error"), <<>>)

RECURSIVE BatchLoop(_, _, _)
DryRunStep_NoDelay(records, i, rs) == BatchLoop(records, i + 1, rs)
\* after the dry-run push the handler awaits the delay like after a send
DryRunStep(records, i, rs) == Step("delay", i, rs, NoResponse, <<>>)

\* the body of the handler's for loop from record i on, and what follows the
\* loop, run until the handler awaits sendMail or the delay, or responds
BatchLoop(records, i, rs) ==
  IF i > Len(records)
  THEN Step("done", i, rs, BatchResponse(rs), <<>>)
  ELSE LET f == Destructure(records[i])
       IN IF BatchRejects(f)
          THEN BatchLoop(records, i + 1, PushRejected(rs, f.studentId))
          ELSE LET mail == buildAbsentEmail(f.studentId, f.studentName, f.dateISO, now)
               IN IF mail.threw
                  THEN BatchCaught(i, rs)
                  ELSE IF UseDryRun
                       THEN DryRunStep(records, i, Append(rs, DryRunResult(f.studentId)))
                       ELSE Step("sending", i, rs, NoResponse,
                                 <<SendCall(i, Envelope(f.parentEmail.s, mail))>>)

Become_SharedResults(r, st) ==
  /\ pc' = [pc EXCEPT ![r] = st.pc]
  /\ idx' = [idx EXCEPT ![r] = st.idx]
  /\ results' = [q \in Reqs |-> st.results]
  /\ res' = [res EXCEPT ![r] = st.res]
  /\ sendCalls' = [sendCalls EXCEPT ![r] = @ \o st.call]
\* the handler's state after a step
Become(r, st) ==
  /\ pc' = [pc EXCEPT ![r] = st.pc]
  /\ idx' = [idx EXCEPT ![r] = st.idx]
  /\ results' = [results EXCEPT ![r] = st.results]
  /\ res' = [res EXCEPT ![r] = st.res]
  /\ sendCalls' = [sendCalls EXCEPT ![r] = @ \o st.call]

\* the handler is entered with body b and runs to its first suspension
SendAbsentEmails(r, b) ==
  /\ pc[r] = "next"
  /\ route' = [route EXCEPT ![r] = "send-absent-emails"]
  /\ body' = [body EXCEPT ![r] = b]
  /\ IF PayloadInvalid(b)
     THEN Become(r, Step("done", 0, <<>>, ErrorResponse(400, "records[] required"), <<>>))
     ELSE Become(r, BatchLoop(b.records, 1, <<>>))
  /\ UNCHANGED <<pdfVars, renders, DRY_RUN, transporter, now, rateLimitMap, granted, clientId>>

\* the last sendMail call of slot r settles
Settle(calls, outcome, e) ==
  [calls EXCEPT ![Len(calls)] = [@ EXCEPT !.outcome = outcome, !.error = e]]

\* results.push({ studentId, ok: true }) after the awaited sendMail resolved
OnSendResolved(rs, studentId) == Append(rs, SentResult(studentId))
OnSendRejected_NoPush(rs, studentId, e) == rs
\* the catch of the inner try: results.push({ studentId, ok: false, message })
OnSendRejected(rs, studentId, e) == Append(rs, FailedResult(studentId, e))

\* await transporter.sendMail(...) resolves; the handler goes on to the delay
AbsentSendResolved(r) ==
  /\ pc[r] = "sending" /\ route[r] = "send-absent-emails"
  /\ results' = [results EXCEPT ![r] =
                   OnSendResolved(@, Destructure(body[r].records[idx[r]]).studentId)]
  /\ sendCalls' = [sendCalls EXCEPT ![r] = Settle(@, "resolved", "")]
  /\ pc' = [pc EXCEPT ![r] = "delay"]
  /\ UNCHANGED <<pdfVars, renders, DRY_RUN, transporter, now, rateLimitMap, granted, route, clientId,
                 body, idx, res>>

\* await transporter.sendMail(...) rejects with error e
AbsentSendRejected(r, e) ==
  /\ pc[r] = "sending" /\ route[r] = "send-absent-emails"
  /\ results' = [results EXCEPT ![r] =
                   OnSendRejected(@, Destructure(body[r].records[idx[r]]).studentId, e)]
  /\ sendCalls' = [sendCalls EXCEPT ![r] = Settle(@, "rejected", e)]
  /\ pc' = [pc EXCEPT ![r] = "delay"]
  /\ UNCHANGED <<pdfVars, renders, DRY_RUN, transporter, now, rateLimitMap, granted, route, clientId,
                 body, idx, res>>

\* await new Promise(r => setTimeout(r, 150)) resolves; the loop goes on
DelayElapsed(r) ==
  /\ pc[r] = "delay"
  /\ Become(r, BatchLoop(body[r].records, idx[r] + 1, results[r]))
  /\ UNCHANGED <<pdfVars, renders, DRY_RUN, transporter, now, rateLimitMap, granted, route, clientId, body>>

(* ----------------------- POST /api/send-email -------------------------- *)
SingleRejection_NoIdCheck(f) ==
  IF ~Truthy(f.studentId) \/ ~Truthy(f.studentName) \/ ~Truthy(f.parentEmail)
  THEN "Missing required fields: studentId, studentName, parentEmail"
  ELSE IF ~isEmail(f.parentEmail) THEN "Invalid email format"
  ELSE ""
SingleRejection_EmailFirst(f) ==
  IF ~Truthy(f.studentId) \/ ~Truthy(f.studentName) \/ ~Truthy(f.parentEmail)
  THEN "Missing required fields: studentId, studentName, parentEmail"
  ELSE IF ~isEmail(f.parentEmail) THEN "Invalid email format"
  ELSE IF ~isValidStudentId(f.studentId) THEN "Invalid student ID format"
  ELSE ""
\* the three validation steps, in the handler's order; "" when all pass
SingleRejection(f) ==
  IF ~Truthy(f.studentId) \/ ~Truthy(f.studentName) \/ ~Truthy(f.parentEmail)
  THEN "Missing required fields: studentId, studentName, parentEmail"
  ELSE IF ~isValidStudentId(f.studentId) THEN "Invalid student ID format"
  ELSE IF ~isEmail(f.parentEmail) THEN "Invalid email format"
  ELSE ""

\* let when: new Date(timestamp) when given and valid, else new Date()
When(timestamp, clock) ==
  IF Truthy(timestamp) /\ NewDate(timestamp).valid THEN NewDate(timestamp)
  ELSE CurrentDate(clock)

\* the handler from its entry to the sendMail await or the response
SingleRun(f) ==
  IF SingleRejection(f) # ""
  THEN Step("done", 0, <<>>, ErrorResponse(400, SingleRejection(f)), <<>>)
  ELSE LET sanitizedStudentId == toUpperCase(sanitizeInput(f.studentId))
           sanitizedStudentName == sanitizeInput(f.studentName)
           sanitizedParentEmail == toLowerCase(trim(f.parentEmail.s))
           mail == buildAttendanceEmail(sanitizedStudentId, sanitizedStudentName,
                                        toISOString(When(f.timestamp, now)), now)
       IN IF UseDryRun
          THEN Step("done", 0, <<>>, SingleResponse, <<>>)
          ELSE Step("sending", 0, <<>>, NoResponse,
                    <<SendCall(0, Envelope(sanitizedParentEmail, mail))>>)

SendEmail(r, b) ==
  /\ pc[r] = "next"
  /\ route' = [route EXCEPT ![r] = "send-email"]
  /\ body' = [body EXCEPT ![r] = b]
  /\ Become(r, SingleRun(Destructure(b.rec)))
  /\ UNCHANGED <<pdfVars, renders, DRY_RUN, transporter, now, rateLimitMap, granted, clientId>>

EmailSendResolved(r) ==
  /\ pc[r] = "sending" /\ route[r] = "send-email"
  /\ sendCalls' = [sendCalls EXCEPT ![r] = Settle(@, "resolved", "")]
  /\ res' = [res EXCEPT ![r] = SingleResponse]
  /\ pc' = [pc EXCEPT ![r] = "done"]
  /\ UNCHANGED <<pdfVars, renders, DRY_RUN, transporter, now, rateLimitMap, granted, route, clientId,
                 body, idx, results>>

EmailSendRejected(r, e) ==
  /\ pc[r] = "sending" /\ route[r] = "send-email"
  /\ sendCalls' = [sendCalls EXCEPT ![r] = Settle(@, "rejected", e)]
  /\ res' = [res EXCEPT ![r] = ErrorResponse(500, "Failed to send email")]
  /\ pc' = [pc EXCEPT ![r] = "done"]
  /\ UNCHANGED <<pdfVars, renders, DRY_RUN, transporter, now, rateLimitMap, granted, route, clientId,
                 body, idx, results>>

(* --------------------- POST /api/send-pdf-email ------------------------ *)
\* the message of the 400 the PDF route's validation answers with, "" when
\* the body passes
PdfRejection(b) ==
  IF ~Truthy(b.rec.studentName) \/ ~Truthy(b.rec.parentEmail) \/ ~Truthy(b.reportData)
  THEN "Missing fields"
  ELSE IF ~isEmail(b.rec.parentEmail) THEN "Invalid parentEmail"
  ELSE ""

\* the handler is entered with body b; it answers 400 or opens the write
\* stream and awaits the promise of the PDF
SendPdfEmail(r, b) ==
  /\ pc[r] = "next"
  /\ route' = [route EXCEPT ![r] = "send-pdf-email"]
  /\ body' = [body EXCEPT ![r] = b]
  /\ IF PdfRejection(b) # ""
     THEN /\ res' = [res EXCEPT ![r] = ErrorResponse(400, PdfRejection(b))]
          /\ pc' = [pc EXCEPT ![r] = "done"]
          /\ UNCHANGED pdfPath
     ELSE /\ pdfPath' = [pdfPath EXCEPT ![r] = PdfPath(Safe(Interpolate(b.rec.studentName)), now)]
          /\ pc' = [pc EXCEPT ![r] = "writing"]
          /\ UNCHANGED res
  /\ UNCHANGED <<reportFiles, renders, DRY_RUN, transporter, now, rateLimitMap, granted,
                 clientId, idx, results, sendCalls>>

\* out.on("finish", resolve): the PDF is on disk; without a real transport
\* the handler answers, else it calls sendMail with the file attached
PdfWritten(r) ==
  /\ pc[r] = "writing"
  /\ reportFiles' = WriteFile(reportFiles, pdfPath[r], TRUE)
  /\ IF UseDryRun
     THEN /\ res' = [res EXCEPT ![r] = PdfResponse(TRUE)]
          /\ pc' = [pc EXCEPT ![r] = "done"]
          /\ UNCHANGED sendCalls
     ELSE /\ sendCalls' = [sendCalls EXCEPT ![r] =
                 <<SendCall(0, PdfEnvelope(body[r].rec.parentEmail.s, pdfPath[r]))>>]
          /\ pc' = [pc EXCEPT ![r] = "sending"]
          /\ UNCHANGED res
  /\ UNCHANGED <<pdfPath, renders, DRY_RUN, transporter, now, rateLimitMap, granted,
                 route, clientId, body, idx, results>>

\* out.on("error", reject): the outer catch answers 500; left tells whether
\* the stream had created the file before it failed
PdfWriteFailed(r, left) ==
  /\ pc[r] = "writing"
  /\ reportFiles' = IF left THEN WriteFile(reportFiles, pdfPath[r], FALSE) ELSE reportFiles
  /\ res' = [res EXCEPT ![r] = ErrorResponse(500, "Internal error")]
  /\ pc' = [pc EXCEPT ![r] = "done"]
  /\ UNCHANGED <<pdfPath, renders, DRY_RUN, transporter, now, rateLimitMap, granted,
                 route, clientId, body, idx, results, sendCalls>>

Finally_OnlyOnSuccess(files, path, threw) ==
  IF threw THEN files ELSE unlinkSync(files, path)
\* finally { try { fs.unlinkSync(pdfPath); } catch {} }
Finally(files, path, threw) == unlinkSync(files, path)

\* await transporter.sendMail(...) resolves: emailSent = true, the finally
\* block runs, res.json({ ok: true, emailSent })
PdfSendResolved(r) ==
  /\ pc[r] = "sending" /\ route[r] = "send-pdf-email"
  /\ sendCalls' = [sendCalls EXCEPT ![r] = Settle(@, "resolved", "")]
  /\ reportFiles' = Finally(reportFiles, pdfPath[r], FALSE)
  /\ res' = [res EXCEPT ![r] = PdfResponse(TRUE)]
  /\ pc' = [pc EXCEPT ![r] = "done"]
  /\ UNCHANGED <<pdfPath, renders, DRY_RUN, transporter, now, rateLimitMap, granted,
                 route, clientId, body, idx, results>>

\* await transporter.sendMail(...) rejects: the finally block runs, the
\* error goes on to the outer catch, which answers 500
PdfSendRejected(r, e) ==
  /\ pc[r] = "sending" /\ route[r] = "send-pdf-email"
  /\ sendCalls' = [sendCalls EXCEPT ![r] = Settle(@, "rejected", e)]
  /\ reportFiles' = Finally(reportFiles, pdfPath[r], TRUE)
  /\ res' = [res EXCEPT ![r] = ErrorResponse(500, "Internal error")]
  /\ pc' = [pc EXCEPT ![r] = "done"]
  /\ UNCHANGED <<pdfPath, renders, DRY_RUN, transporter, now, rateLimitMap, granted,
                 route, clientId, body, idx, results>>

(* ---------------------------- specifications --------------------------- *)
\* the slot of a request that was answered serves the next request
NewRequest(r) ==
  /\ pc[r] = "done"
  /\ pc' = [pc EXCEPT ![r] = "idle"]
  /\ route' = [route EXCEPT ![r] = "none"]
  /\ clientId' = [clientId EXCEPT ![r] = "none"]
  /\ body' = [body EXCEPT ![r] = NoBody]
  /\ idx' = [idx EXCEPT ![r] = 0]
  /\ results' = [results EXCEPT ![r] = <<>>]
  /\ res' = [res EXCEPT ![r] = NoResponse]
  /\ sendCalls' = [sendCalls EXCEPT ![r] = <<>>]
  /\ pdfPath' = [pdfPath EXCEPT ![r] = NoPath]
  /\ UNCHANGED <<reportFiles, renders, DRY_RUN, transporter, now, rateLimitMap, granted>>

\* one request, any body: the handlers
Next ==
  \/ \E c \in Callers : rateLimit(1, c)
  \/ \E b \in BatchBodies : SendAbsentEmails(1, b)
  \/ \E b \in SingleBodies : SendEmail(1, b)
  \/ AbsentSendResolved(1)
  \/ \E e \in TransportErrors : AbsentSendRejected(1, e)
  \/ DelayElapsed(1)
  \/ EmailSendResolved(1)
  \/ \E e \in TransportErrors : EmailSendRejected(1, e)

Spec == Init /\ [][Next]_vars

\* the bodies of the requests in the rate limiter's specification
GovBodies == {NoBody}

\* requests of several callers over time: the rate limiter
NextGov ==
  \/ \E r \in Reqs, c \in Callers : rateLimit(r, c)
  \/ \E r \in Reqs, b \in GovBodies : SendAbsentEmails(r, b)
  \/ \E r \in Reqs : NewRequest(r)
  \/ Tick

\* the rate limiter reads neither DRY_RUN nor the transporter
InitGov == Init /\ ~DRY_RUN

SpecGov == InitGov /\ [][NextGov]_vars

\* one caller slot, time and the periodic sweep; the timer of the sweep
\* keeps firing
NextSweep ==
  \/ \E c \in Callers : rateLimit(1, c)
  \/ \E b \in GovBodies : SendAbsentEmails(1, b)
  \/ NewRequest(1)
  \/ Tick
  \/ Sweep

SpecSweep == InitGov /\ [][NextSweep]_vars /\ WF_vars(Sweep)

\* the promise of transporter.sendMail settles
SendSettles(r) ==
  AbsentSendResolved(r) \/ \E e \in TransportErrors : AbsentSendRejected(r, e)

\* one request whose sendMail promises settle and whose timers fire
SpecLive ==
  Init /\ [][Next]_vars /\ WF_vars(SendSettles(1)) /\ WF_vars(DelayElapsed(1))

\* two calls of POST /api/send-absent-emails in progress at once
ConcReqs == {1, 2}
\* both calls come from one address
ConcCaller == "ip1"
\* the error a rejected sendMail carries
ConcError == "ETIMEDOUT"
ConcRecords ==
  { Rec(IdGood, NameGood, EmailGood, JUndefined, JUndefined),
    Rec(IdShort, NameGood, EmailGood, JUndefined, JUndefined),
    Rec(IdDash, NameGood, EmailBad, JUndefined, JUndefined) }
ConcBodies == {BatchBody(TRUE, q) : q \in SeqsUpTo(ConcRecords, MaxBatch)}

\* the event loop runs one handler at a time, from one await to the next
NextConc ==
  \E r \in ConcReqs :
    \/ rateLimit(r, ConcCaller)
    \/ \E b \in ConcBodies : SendAbsentEmails(r, b)
    \/ AbsentSendResolved(r)
    \/ AbsentSendRejected(r, ConcError)
    \/ DelayElapsed(r)

SpecConc == Init /\ [][NextConc]_vars

\* requests to the PDF route, one after the other
NextPdf ==
  \/ \E c \in Callers : rateLimit(1, c)
  \/ \E b \in PdfBodies : SendPdfEmail(1, b)
  \/ PdfWritten(1)
  \/ \E left \in BOOLEAN : PdfWriteFailed(1, left)
  \/ PdfSendResolved(1)
  \/ \E e \in TransportErrors : PdfSendRejected(1, e)
  \/ NewRequest(1)

SpecPdf == Init /\ [][NextPdf]_vars

\* the arguments the builders are called with
RenderIds == {IdGood}
RenderNames == {NameGood, NameMarkup}
RenderDates == {JUndefined, DateGood, DateBad}

\* buildAttendanceEmail({ studentId, studentName, whenISO }) is called
RenderAttendance(k, id, name, whenISO) ==
  /\ renders' = [renders EXCEPT ![k] =
       Render("buildAttendanceEmail", Interpolate(id), Interpolate(name), whenISO, now,
              buildAttendanceEmail(Interpolate(id), Interpolate(name), whenISO, now))]
  /\ UNCHANGED <<pdfVars, DRY_RUN, transporter, now, rateLimitMap, granted, pc, route, clientId,
                 body, idx, results, res, sendCalls>>

\* buildAbsentEmail({ studentId, studentName, dateISO }) is called
RenderAbsent(k, id, name, dateISO) ==
  /\ renders' = [renders EXCEPT ![k] =
       Render("buildAbsentEmail", Interpolate(id), Interpolate(name), dateISO, now,
              buildAbsentEmail(id, name, dateISO, now))]
  /\ UNCHANGED <<pdfVars, DRY_RUN, transporter, now, rateLimitMap, granted, pc, route, clientId,
                 body, idx, results, res, sendCalls>>

\* the builders called at any moments
NextRender ==
  \/ \E k \in RenderCalls, id \in RenderIds, name \in RenderNames, d \in RenderDates :
       RenderAttendance(k, id, name, d)
  \/ \E k \in RenderCalls, id \in RenderIds, name \in RenderNames, d \in RenderDates :
       RenderAbsent(k, id, name, d)
  \/ Tick

SpecRender == InitGov /\ [][NextRender]_vars

(* ------------------------------- claims -------------------------------- *)
IsBatch(r) == route[r] = "send-absent-emails"
\* the batch handler of slot r answered with a BatchResult
BatchReturned(r) == IsBatch(r) /\ pc[r] = "done" /\ res[r].status = 200
\* the record at index i of the batch of slot r, destructured
RecordAt(r, i) == Destructure(body[r].records[i])
\* the batch route's validation refuses record f
Refused(f) ==
  \/ ~Truthy(f.studentId) \/ ~Truthy(f.studentName) \/ ~Truthy(f.parentEmail)
  \/ ~isEmail(f.parentEmail)
\* the calls of sendMail slot r made for record i
CallsFor(r, i) == {k \in 1..Len(sendCalls[r]) : sendCalls[r][k].idx = i}

\* C1: a returned batch has one result per input record, total is the input
\* length, and result i echoes the studentId of record i.
C1_OneResultPerRecord ==
  \A r \in Reqs : BatchReturned(r) =>
    /\ Len(res[r].results) = Len(body[r].records)
    /\ res[r].total = Len(body[r].records)
    /\ \A i \in 1..Len(body[r].records) :
         res[r].results[i].studentId = RecordAt(r, i).studentId

C1_Witness ==
  \E r \in Reqs :
    /\ BatchReturned(r) /\ Len(body[r].records) >= 2
    /\ \E i, j \in 1..Len(res[r].results) :
         /\ res[r].results[i].message = "Invalid or missing fields"
         /\ res[r].results[j].message = "ETIMEDOUT"

\* C2: in a returned batch, sent is the number of results whose ok is true.
C2_SentCountsOk ==
  \A r \in Reqs : BatchReturned(r) =>
    res[r].sent = Cardinality({i \in 1..Len(res[r].results) : res[r].results[i].ok})

C2_Witness ==
  \E r \in Reqs : BatchReturned(r) /\ res[r].sent = 1 /\ res[r].total = 2

\* C3: a batch call given a non-empty array never ends in an error response:
\* whatever its records, it answers 200 with sent, total and results.
C3_BatchNeverFails ==
  \A r \in Reqs :
    (IsBatch(r) /\ pc[r] = "done" /\ body[r].isArray /\ body[r].records # <<>>)
      => res[r].status = 200

\* C4: a batch call whose records is missing, not an array or empty is
\* answered 400 "records[] required", with no result and no sendMail call.
C4_BadPayloadRejected ==
  \A r \in Reqs :
    (IsBatch(r) /\ (~body[r].isArray \/ body[r].records = <<>>)) =>
      /\ pc[r] = "done"
      /\ res[r] = ErrorResponse(400, "records[] required")
      /\ results[r] = <<>>
      /\ sendCalls[r] = <<>>

C4_Witness ==
  \E r \in Reqs :
    IsBatch(r) /\ body[r].isArray /\ body[r].records = <<>> /\ res[r].status = 400

\* the result the batch route owes record f once its send attempt is over:
\* it depends on f and on the outcome of f's own sendMail call alone
OwedResult(f, dry, call) ==
  IF dry THEN [studentId |-> f.studentId, ok |-> TRUE, dryRun |-> TRUE, message |-> Absent]
  ELSE IF call.outcome = "resolved"
  THEN [studentId |-> f.studentId, ok |-> TRUE, dryRun |-> FALSE, message |-> Absent]
  ELSE [studentId |-> f.studentId, ok |-> FALSE, dryRun |-> FALSE,
        message |-> IF call.error = "" THEN "send failed" ELSE call.error]

\* the batch of slot r stopped at a record whose rendering threw
StoppedAtRenderError(r) ==
  /\ res[r] = ErrorResponse(500, "Internal error")
  /\ idx[r] \in 1..Len(body[r].records)
  /\ ~Refused(RecordAt(r, idx[r]))
  /\ ~AbsentDate(RecordAt(r, idx[r]).dateISO, now).valid

\* C5: a record the batch route's validation refuses gets the result ok false
\* with a message, no sendMail call is made for it, the loop goes on to the
\* next record, and the results of the other records are what each owes to
\* its own record and own send outcome, whatever refused records are around.
C5_RefusedRecordIsolated ==
  \A r \in Reqs : IsBatch(r) /\ ~(~body[r].isArray \/ body[r].records = <<>>) =>
    /\ \A i \in 1..Len(results[r]) :
         IF Refused(RecordAt(r, i))
         THEN /\ results[r][i] = [studentId |-> RecordAt(r, i).studentId, ok |-> FALSE,
                                  dryRun |-> FALSE, message |-> "Invalid or missing fields"]
              /\ CallsFor(r, i) = {}
         ELSE IF DRY_RUN \/ transporter = "null"
              THEN results[r][i] = OwedResult(RecordAt(r, i), TRUE, <<>>)
              ELSE /\ Cardinality(CallsFor(r, i)) = 1
                   /\ \A k \in CallsFor(r, i) :
                        results[r][i] = OwedResult(RecordAt(r, i), FALSE, sendCalls[r][k])
    /\ pc[r] \in {"sending", "delay"} => ~Refused(RecordAt(r, idx[r]))
    /\ pc[r] = "done" => BatchReturned(r) \/ StoppedAtRenderError(r)
    /\ BatchReturned(r) => Len(results[r]) = Len(body[r].records) /\ res[r].results = results[r]

C5_Witness ==
  \E r \in Reqs :
    /\ BatchReturned(r) /\ Len(body[r].records) >= 2
    /\ Refused(RecordAt(r, 1)) /\ ~Refused(RecordAt(r, 2))
    /\ ~res[r].results[1].ok /\ res[r].results[2].ok
    /\ Cardinality(CallsFor(r, 2)) = 1 /\ Len(sendCalls[r]) = 1

\* C6: when sendMail rejects for record i, result i is ok false with the
\* error's message ("send failed" when it has none), the handler goes on to
\* the delay and the records after i: it never stops at i, and when it
\* answers, every later record has its result and, unless refused, its call.
C6_TransportFailureIsolated ==
  \A r \in Reqs : IsBatch(r) =>
    \A k \in 1..Len(sendCalls[r]) :
      LET call == sendCalls[r][k]
          i == call.idx
      IN call.outcome = "rejected" =>
           /\ Len(results[r]) >= i
           /\ results[r][i] = [studentId |-> RecordAt(r, i).studentId, ok |-> FALSE,
                               dryRun |-> FALSE,
                               message |-> IF call.error = "" THEN "send failed"
                                           ELSE call.error]
           /\ pc[r] \in {"delay", "sending", "done"}
           /\ pc[r] = "delay" => idx[r] >= i
           /\ pc[r] \in {"sending", "done"} => idx[r] > i
           /\ pc[r] = "done" => BatchReturned(r) \/ StoppedAtRenderError(r)
           /\ BatchReturned(r) =>
                /\ Len(res[r].results) = Len(body[r].records)
                /\ \A j \in (i + 1)..Len(body[r].records) :
                     ~Refused(RecordAt(r, j)) => CallsFor(r, j) # {}

C6_Witness ==
  \E r \in Reqs :
    /\ BatchReturned(r) /\ Len(sendCalls[r]) = 2
    /\ sendCalls[r][1].outcome = "rejected" /\ sendCalls[r][1].idx = 1
    /\ sendCalls[r][2].outcome = "resolved" /\ sendCalls[r][2].idx = 2
    /\ ~res[r].results[1].ok /\ res[r].results[2].ok

\* the record a sendMail call of slot r was made for
RecordOfCall(r, call) ==
  IF IsBatch(r) THEN RecordAt(r, call.idx) ELSE Destructure(body[r].rec)

\* C7: no sendMail call is made, on either route, for a record that is not
\* fully valid: all three fields present, studentId well-formed (at least 3
\* characters of A-Z0-9 after trimming and upper-casing), parentEmail an
\* e-mail address.
C7_OnlyValidRecordsSent ==
  \A r \in Reqs : \A k \in 1..Len(sendCalls[r]) :
    LET f == RecordOfCall(r, sendCalls[r][k])
    IN /\ Truthy(f.studentId) /\ Truthy(f.studentName) /\ Truthy(f.parentEmail)
       /\ isValidStudentId(f.studentId)
       /\ isEmail(f.parentEmail)

InWindow(c) ==
  {i \in 1..Len(StoredRequests(c)) : now - StoredRequests(c)[i] < RATE_LIMIT_WINDOW}
\* how often time t occurs in the array q
Occurrences(q, t) == Cardinality({i \in 1..Len(q) : q[i] = t})

\* C9: the limiter lets a request of caller c through exactly when fewer
\* than MAX_REQUESTS_PER_WINDOW of c's recorded timestamps t have
\* now - t < RATE_LIMIT_WINDOW; it then records now for c; and at no time
\* were more than MAX_REQUESTS_PER_WINDOW requests of one caller let through
\* within the trailing window.
C9_AllowedIffBelowCap ==
  /\ [](\A c \in Callers : Len(granted[c]) <= MAX_REQUESTS_PER_WINDOW)
  /\ [][\A r \in Reqs, c \in Callers : rateLimit(r, c) =>
          /\ (pc'[r] = "next") <=> (Cardinality(InWindow(c)) < MAX_REQUESTS_PER_WINDOW)
          /\ (pc'[r] = "done") <=> (Cardinality(InWindow(c)) >= MAX_REQUESTS_PER_WINDOW)
          /\ pc'[r] = "done" => res'[r].status = 429
          /\ pc'[r] = "next" =>
               /\ Occurrences(rateLimitMap'[c], now) = Occurrences(StoredRequests(c), now) + 1
               /\ Len(rateLimitMap'[c]) = Cardinality(InWindow(c)) + 1]_vars

C9_Witness ==
  \E r \in Reqs, c \in Callers :
    /\ res[r].status = 429 /\ clientId[r] = c
    /\ Len(granted[c]) = MAX_REQUESTS_PER_WINDOW

\* C10: whether a request is let through depends only on the caller's
\* requests that were let through and are still inside the trailing window:
\* a caller that was denied is let through as soon as fewer than
\* MAX_REQUESTS_PER_WINDOW of them remain, and a denied request leaves the
\* caller's recorded timestamps as they were.
C10_DeniedThenAllowedAgain ==
  [][\A r \in Reqs, c \in Callers : rateLimit(r, c) =>
       /\ (pc'[r] = "next") <=> (Len(granted[c]) < MAX_REQUESTS_PER_WINDOW)
       /\ pc'[r] = "done" => /\ res'[r].status = 429
                             /\ rateLimitMap'[c] = StoredRequests(c)
                             /\ granted' = granted]_vars

\* caller c was denied (slot r1 still holds the 429) and, the window having
\* passed, was let through again just now (slot r2)
C10_Witness ==
  \E r1, r2 \in Reqs, c \in Callers :
    /\ res[r1].status = 429 /\ clientId[r1] = c
    /\ pc[r2] = "next" /\ clientId[r2] = c
    /\ granted[c] = <<now>>

\* caller c has an entry in the map and none of its timestamps is younger
\* than the window
Stale(c) ==
  /\ c \in DOMAIN rateLimitMap
  /\ \A i \in 1..Len(rateLimitMap[c]) : now - rateLimitMap[c][i] >= RATE_LIMIT_WINDOW

IsSingle(r) == route[r] = "send-email"
\* the body of the single-record request of slot r, destructured
SingleRecord(r) == Destructure(body[r].rec)
\* a field the single-record route counts as missing
FieldMissing(f) ==
  ~Truthy(f.studentId) \/ ~Truthy(f.studentName) \/ ~Truthy(f.parentEmail)
\* the single-record route's validation lets record f through
PassesSingle(f) ==
  ~FieldMissing(f) /\ isValidStudentId(f.studentId) /\ isEmail(f.parentEmail)

\* C12: the single-record call answers ok true only for a record that
\* passed validation and whose send succeeded (or with the dry-run channel);
\* a validation failure is answered 400 without any sendMail call, and a
\* rejected sendMail is answered with the error response 500.
C12_SingleFailsWholeCall ==
  \A r \in Reqs : IsSingle(r) =>
    LET f == SingleRecord(r)
    IN /\ ~PassesSingle(f) =>
            pc[r] = "done" /\ res[r].status = 400 /\ ~res[r].ok /\ sendCalls[r] = <<>>
       /\ res[r].ok =>
            /\ res[r].status = 200 /\ PassesSingle(f)
            /\ IF DRY_RUN \/ transporter = "null" THEN sendCalls[r] = <<>>
               ELSE Len(sendCalls[r]) = 1 /\ sendCalls[r][1].outcome = "resolved"
       /\ \A k \in 1..Len(sendCalls[r]) :
            /\ sendCalls[r][k].outcome = "rejected" =>
                 pc[r] = "done" /\ res[r].status = 500 /\ ~res[r].ok
            /\ sendCalls[r][k].outcome = "pending" => pc[r] = "sending"
       /\ pc[r] = "done" => res[r].status \in {200, 400, 500}

C12_Witness ==
  \E r \in Reqs :
    /\ IsSingle(r) /\ res[r].status = 500
    /\ Len(sendCalls[r]) = 1 /\ sendCalls[r][1].outcome = "rejected"

\* C13: the single-record route's validation gives every record exactly one
\* outcome, fixed by the record alone: a missing studentId, studentName or
\* parentEmail is MissingField whatever the format of the other fields,
\* otherwise an ill-formed studentId is InvalidStudentId, otherwise an
\* ill-formed parentEmail is InvalidEmail, otherwise the record is valid.
C13_ValidationOrder ==
  \A r \in Reqs : IsSingle(r) =>
    LET f == SingleRecord(r)
        rejected == pc[r] = "done" /\ res[r].status = 400
    IN IF FieldMissing(f)
       THEN rejected /\ res[r].message =
                          "Missing required fields: studentId, studentName, parentEmail"
       ELSE IF ~isValidStudentId(f.studentId)
       THEN rejected /\ res[r].message = "Invalid student ID format"
       ELSE IF ~isEmail(f.parentEmail)
       THEN rejected /\ res[r].message = "Invalid email format"
       ELSE res[r].status # 400

C13_Witness ==
  \E r \in Reqs :
    /\ IsSingle(r)
    /\ ~FieldMissing(SingleRecord(r))
    /\ ~isValidStudentId(SingleRecord(r).studentId)
    /\ ~isEmail(SingleRecord(r).parentEmail)
    /\ res[r].message = "Invalid student ID format"

\* the record of the request of slot r that index i names (0: the body of
\* a single-record request)
RecordOf(r, i) == IF i = 0 THEN SingleRecord(r) ELSE RecordAt(r, i)
\* the studentName of f is a string that is empty after trimming
NameBlankAfterTrim(f) == f.studentName.t = "string" /\ trim(f.studentName.s) = <<>>

\* C14: a record whose studentName is empty after trimming is rejected and
\* no send is attempted for it: on the single-record route the call is
\* answered 400, on the batch route its result is ok false, and no sendMail
\* call is made for it.
C14_BlankNameRejected ==
  \A r \in Reqs :
    /\ (IsSingle(r) /\ NameBlankAfterTrim(SingleRecord(r))) =>
         res[r].status = 400 /\ sendCalls[r] = <<>>
    /\ IsBatch(r) =>
         /\ \A i \in 1..Len(results[r]) :
              NameBlankAfterTrim(RecordAt(r, i)) => ~results[r][i].ok
         /\ \A k \in 1..Len(sendCalls[r]) :
              ~NameBlankAfterTrim(RecordAt(r, sendCalls[r][k].idx))

\* the characters of MarkupChars that occur in the string q
MarkupIn(q) == {q[i] : i \in 1..Len(q)} \cap MarkupChars

\* C15: in every envelope handed to sendMail, on either route, the student
\* name in the text and HTML bodies is free of the characters < > " ' &.
C15_SentNameSanitized ==
  \A r \in Reqs : \A k \in 1..Len(sendCalls[r]) :
    /\ MarkupIn(sendCalls[r][k].envelope.text.studentName) = {}
    /\ MarkupIn(sendCalls[r][k].envelope.html.studentName) = {}

\* C16: the recipient of every envelope handed to sendMail, on either route,
\* is the record's parentEmail trimmed and lower-cased.
C16_RecipientNormalized ==
  \A r \in Reqs : \A k \in 1..Len(sendCalls[r]) :
    LET f == RecordOf(r, sendCalls[r][k].idx)
    IN /\ sendCalls[r][k].envelope.to = toLowerCase(trim(f.parentEmail.s))
       /\ sendCalls[r][k].envelope.to # <<>>
       /\ Head(sendCalls[r][k].envelope.to) \notin Whitespace
       /\ \A i \in 1..Len(sendCalls[r][k].envelope.to) :
            sendCalls[r][k].envelope.to[i] \notin UpperLetters

\* the timestamp argument of a builder call is given and parsable
Parsable(date) == Truthy(date) /\ NewDate(date).valid
\* two builder calls with identical inputs
SameInputs(a, b) ==
  /\ a.fn # "none" /\ a.fn = b.fn
  /\ a.studentId = b.studentId /\ a.studentName = b.studentName /\ a.date = b.date

\* C17: a builder never fails on a bad timestamp: every call of
\* buildAttendanceEmail or buildAbsentEmail returns subject, text and html,
\* and for an unparsable timestamp they carry the time of the call.
C17_RenderNeverFails ==
  \A k \in RenderCalls : renders[k].fn # "none" =>
    /\ ~renders[k].out.threw
    /\ (Truthy(renders[k].date) /\ ~NewDate(renders[k].date).valid) =>
         renders[k].out.text.when \in {FormatDay(CurrentDate(renders[k].at)),
                                       FormatLocale(CurrentDate(renders[k].at))}

Pending(r) == {k \in 1..Len(sendCalls[r]) : sendCalls[r][k].outcome = "pending"}
\* the send attempts slot r has made so far: sendMail calls and dry-run sends
DryRuns(rs) == {i \in 1..Len(rs) : rs[i].dryRun}
Attempts(r) == Len(sendCalls[r]) + Cardinality(DryRuns(results[r]))
\* while a send of the batch is in flight it is the only one, it is for the
\* record the loop is at, and every earlier record has its result
InFlightAlone(r) ==
  /\ Cardinality(Pending(r)) <= 1
  /\ Pending(r) # {} <=> pc[r] = "sending"
  /\ pc[r] = "sending" =>
       /\ Pending(r) = {Len(sendCalls[r])}
       /\ sendCalls[r][Len(sendCalls[r])].idx = idx[r]
       /\ Len(results[r]) = idx[r] - 1
  /\ \A j, k \in 1..Len(sendCalls[r]) : j < k => sendCalls[r][j].idx < sendCalls[r][k].idx
\* a step makes at most one attempt, the first one on entry and every later
\* one when the delay elapses, and a settled send is followed by the delay
Paced(r) ==
  /\ Attempts(r)' > Attempts(r) =>
       /\ Attempts(r)' = Attempts(r) + 1
       /\ Attempts(r) = 0 \/ pc[r] = "delay"
       /\ pc'[r] \in {"sending", "delay"}
  /\ (pc[r] = "sending" /\ pc'[r] # "sending") =>
       pc'[r] = "delay" /\ Len(results'[r]) = Len(results[r]) + 1
  /\ (pc[r] = "delay" /\ pc'[r] # "delay") => idx'[r] > idx[r]

\* C19: within one batch the send for a record starts only after every
\* earlier record has its result, at most one send of the batch is in
\* flight, and after each send attempt (sent, failed or dry-run) the delay
\* elapses before the next record is processed.
C19_SequentialAndPaced ==
  /\ [](\A r \in Reqs : IsBatch(r) => InFlightAlone(r))
  /\ [][\A r \in Reqs : IsBatch(r)' => Paced(r)]_vars

C19_Witness ==
  \E r \in Reqs :
    /\ IsBatch(r) /\ pc[r] = "sending" /\ idx[r] = 2
    /\ Len(sendCalls[r]) = 2 /\ sendCalls[r][1].outcome = "rejected"
    /\ Pending(r) = {2} /\ Len(results[r]) = 1

\* the result the handler, running alone, gives record n of records when
\* calls holds the settled sendMail calls it made
AloneResult(records, calls, n) ==
  LET f == Destructure(records[n])
      ks == {k \in 1..Len(calls) : calls[k].idx = n}
  IN IF Refused(f) THEN RejectedResult(f.studentId)
     ELSE IF UseDryRun THEN DryRunResult(f.studentId)
     ELSE IF ks = {} \/ \E k \in ks : calls[k].outcome = "pending"
          THEN Result(f.studentId, FALSE, FALSE, "(no outcome)")
     ELSE LET k == CHOOSE k \in ks : TRUE
          IN IF calls[k].outcome = "resolved" THEN SentResult(f.studentId)
             ELSE FailedResult(f.studentId, calls[k].error)
\* the results of the first n records of a call running alone
AloneResults(records, calls, n) == [i \in 1..n |-> AloneResult(records, calls, i)]
\* slot r's results and calls are those of its own records
OwnRecordsOnly(r) ==
  /\ ~PayloadInvalid(body[r]) =>
       /\ Len(results[r]) <= Len(body[r].records)
       /\ results[r] = AloneResults(body[r].records, sendCalls[r], Len(results[r]))
  /\ \A k \in 1..Len(sendCalls[r]) :
       LET f == RecordAt(r, sendCalls[r][k].idx)
       IN sendCalls[r][k].envelope =
            Envelope(f.parentEmail.s,
                     buildAbsentEmail(f.studentId, f.studentName, f.dateISO, now))
  /\ BatchReturned(r) =>
       /\ res[r].results = AloneResults(body[r].records, sendCalls[r], Len(body[r].records))
       /\ res[r].total = Len(body[r].records)
       /\ res[r].sent = CountOk(AloneResults(body[r].records, sendCalls[r], Len(body[r].records)))
\* a step of one call leaves the other call's records, results, calls and
\* response as they were
OtherUntouched(r) ==
  (pc'[r] # pc[r] \/ results'[r] # results[r] \/ sendCalls'[r] # sendCalls[r]) =>
    \A q \in ConcReqs \ {r} :
      /\ body'[q] = body[q] /\ idx'[q] = idx[q] /\ pc'[q] = pc[q]
      /\ results'[q] = results[q] /\ sendCalls'[q] = sendCalls[q] /\ res'[q] = res[q]

\* C20: under every interleaving of two batch calls at their awaits each
\* call's results are those of its own records in its own order, and its
\* sent and total are those of the call running alone with the same sendMail
\* outcomes.
C20_ConcurrentBatchesIndependent ==
  /\ [](\A r \in ConcReqs : IsBatch(r) => OwnRecordsOnly(r))
  /\ [][\A r \in ConcReqs : OtherUntouched(r)]_vars

\* both calls suspended at once, each part-way through its own records
C20_Witness ==
  /\ IsBatch(1) /\ IsBatch(2)
  /\ pc[1] = "sending" /\ idx[1] = 2 /\ pc[2] = "delay" /\ idx[2] = 1
  /\ Len(results[1]) = 1 /\ Len(results[2]) = 1
  /\ Len(sendCalls[1]) = 2 /\ Len(sendCalls[2]) = 1
  /\ body[1] # body[2]
  /\ results[1][1].studentId # results[2][1].studentId
  /\ results[1][1].ok /\ ~results[2][1].ok

\* the timestamps recorded for caller c, read from the map itself
Recorded(c) == IF c \in DOMAIN rateLimitMap THEN rateLimitMap[c] ELSE <<>>
\* those of them that are inside the window now
OwnWindow(c) == SelectSeq(Recorded(c), LAMBDA t : now - t < RATE_LIMIT_WINDOW)

\* C21: a request of caller a, let through or denied, leaves the window of
\* every other caller b as it was; the window of b holds b's own let-through
\* requests and nothing else; and the decision for b is taken on b's own
\* recorded timestamps, under every interleaving of requests of the callers.
C21_WindowsIndependent ==
  /\ [](\A b \in Callers : OwnWindow(b) = granted[b])
  /\ [][\A r \in Reqs, a \in Callers : rateLimit(r, a) =>
          /\ \A b \in Callers \ {a} :
               /\ (b \in DOMAIN rateLimitMap') <=> (b \in DOMAIN rateLimitMap)
               /\ Recorded(b)' = Recorded(b)
               /\ granted'[b] = granted[b]
          /\ (pc'[r] = "next") <=> (Len(OwnWindow(a)) < MAX_REQUESTS_PER_WINDOW)]_vars

\* caller a is at its cap and was just denied while caller b, with a window
\* of its own, was let through at the same time
C21_Witness ==
  \E r1, r2 \in Reqs, a, b \in Callers :
    /\ a # b
    /\ res[r1].status = 429 /\ clientId[r1] = a /\ pc[r1] = "done"
    /\ pc[r2] = "next" /\ clientId[r2] = b
    /\ Len(OwnWindow(a)) = MAX_REQUESTS_PER_WINDOW
    /\ Recorded(b) = <<now>>

\* C22: a denied request ends that call only: the route handler is not run
\* for it (no validation, no render, no send), the 429 response is its
\* answer, the caller's recorded window is exactly what it was before the
\* request, and no other call in progress is touched.
C22_DeniedCallOnly ==
  /\ [](\A r \in Reqs : res[r].status = 429 =>
          /\ pc[r] = "done" /\ route[r] = "none" /\ body[r] = NoBody
          /\ idx[r] = 0 /\ results[r] = <<>> /\ sendCalls[r] = <<>>)
  /\ [][\A r \in Reqs, c \in Callers : (rateLimit(r, c) /\ res'[r].status = 429) =>
          /\ res'[r] = ErrorResponse(429, "Too many requests. Please try again later.")
          /\ c \in DOMAIN rateLimitMap /\ rateLimitMap' = rateLimitMap
          /\ renders' = renders
          /\ \A q \in Reqs \ {r} : pc'[q] = pc[q] /\ res'[q] = res[q]]_vars
  /\ [][\A r \in Reqs : res[r].status = 429 =>
          \/ res'[r] = res[r] /\ pc'[r] = pc[r] /\ route'[r] = route[r]
          \/ NewRequest(r)]_vars

\* a denied call next to a call of the same caller that was let through
\* earlier and whose handler has answered
C22_Witness ==
  \E r1, r2 \in Reqs, c \in Callers :
    /\ res[r1].status = 429 /\ clientId[r1] = c /\ route[r1] = "none"
    /\ clientId[r2] = c /\ route[r2] = "send-absent-emails" /\ res[r2].status = 400
    /\ Len(Recorded(c)) = MAX_REQUESTS_PER_WINDOW

\* the batch handler of slot r has started on an array of records
BatchStarted(r) == IsBatch(r) /\ ~PayloadInvalid(body[r])

\* C23: when every sendMail promise settles and every delay timer fires, a
\* batch that has started eventually answers with the results of all its
\* records; it never stops part-way.
C23_BatchCompletes ==
  \A r \in Reqs :
    BatchStarted(r) ~>
      (pc[r] = "done" /\ res[r].status = 200 /\ res[r].total = Len(body[r].records))

\* C24: in every reachable state the array stored for a caller holds at
\* most MAX_REQUESTS_PER_WINDOW timestamps, whatever the sequence and timing
\* of the requests.
C24_WindowBounded ==
  \A c \in DOMAIN rateLimitMap : Len(rateLimitMap[c]) <= MAX_REQUESTS_PER_WINDOW

\* a caller whose array is full again after its first window has passed,
\* and whose latest request was denied
C24_Witness ==
  \E r \in Reqs, c \in DOMAIN rateLimitMap :
    /\ Len(rateLimitMap[c]) = MAX_REQUESTS_PER_WINDOW
    /\ rateLimitMap[c][1] >= RATE_LIMIT_WINDOW
    /\ clientId[r] = c /\ res[r].status = 429

\* the batch of slot r uses a real transport
RealTransport == ~(DRY_RUN \/ transporter = "null")

\* C25: the batch path never retries: sendMail is called at most once for
\* each record of a batch, exactly once for a record that passes the
\* validation when a real transport is used, so a batch never makes more
\* calls than it has records, also when calls fail.
C25_NoRetry ==
  \A r \in Reqs : (IsBatch(r) /\ ~PayloadInvalid(body[r])) =>
    /\ Len(sendCalls[r]) <= Len(body[r].records)
    /\ \A i \in 1..Len(body[r].records) : Cardinality(CallsFor(r, i)) <= 1
    /\ pc[r] = "done" =>
         \A i \in 1..Len(body[r].records) :
           (RealTransport /\ ~Refused(RecordAt(r, i))) => Cardinality(CallsFor(r, i)) = 1

\* slot r is on the PDF route
IsPdf(r) == route[r] = "send-pdf-email"
\* the files at path that are on disk
FilesAt(files, path) == {f \in files : f.path = path}

\* C26: on the PDF route with a real transport the generated report file is
\* deleted after the sendMail call, whether the call resolved or rejected:
\* a generated file is on disk only while the request that wrote it awaits
\* its sendMail call.
C26_ReportFileDeleted ==
  /\ [](RealTransport =>
         \A f \in reportFiles : f.complete =>
           \E r \in Reqs : IsPdf(r) /\ pc[r] = "sending" /\ pdfPath[r] = f.path)
  /\ [][\A r \in Reqs :
          (IsPdf(r) /\ pc[r] = "sending" /\ pc'[r] # "sending") =>
            /\ FilesAt(reportFiles, pdfPath[r]) = {File(pdfPath[r], TRUE)}
            /\ FilesAt(reportFiles', pdfPath[r]) = {}
            /\ pc'[r] = "done"
            /\ res'[r].status = IF sendCalls'[r][1].outcome = "resolved" THEN 200 ELSE 500]_vars

\* a PDF request whose sendMail call was rejected has answered 500 and its
\* file is gone
C26_Witness ==
  \E r \in Reqs :
    /\ IsPdf(r) /\ pc[r] = "done" /\ res[r].status = 500
    /\ Len(sendCalls[r]) = 1 /\ sendCalls[r][1].outcome = "rejected"
    /\ sendCalls[r][1].envelope.attachments = <<pdfPath[r]>>
    /\ FilesAt(reportFiles, pdfPath[r]) = {}

====
